---- MODULE Spec2Model ----
(***************************************************************************)
(* Model of media_to_gif.py: the Pair Finder (find_video_pairs), the Clip  *)
(* Generator (make_gif), the Video Processor (process_video) and the       *)
(* Orchestrator's loop over the pairs (main).                              *)
(*                                                                         *)
(* Texts and file names are sequences of one-character strings, so that    *)
(* the regular expressions, slugify, the "{i:06}" formatting and the       *)
(* int(...split('-')[0]) parsing are computed the way the code computes    *)
(* them.  The file system is a function from paths to contents whose       *)
(* domain is the set of existing files.                                    *)
(***************************************************************************)
EXTENDS Integers, Sequences, FiniteSets, TLC

\* ------------------------------------------------------------------------
\* Bounds of the model
\* ------------------------------------------------------------------------

\* os.cpu_count() of the host (MAX_WORKERS): worker slots of one pool.
MaxWorkers == 2

\* ------------------------------------------------------------------------
\* Configuration (lines 35-46)
\* ------------------------------------------------------------------------

INPUT_DIR == "input"

OUTPUT_DIR == "gifs"

SKIP_ENABLED == TRUE

\* The five SKIP_PATTERNS, by position in the list.
SKIP_PATTERNS == <<"ends_lower", "ends_comma", "ends_colon", "starts_lower", "starts_ellipsis">>

\* ------------------------------------------------------------------------
\* Characters
\* ------------------------------------------------------------------------

LowerLetters == <<"a","b","c","d","e","f","g","h","i","j","k","l","m",
                  "n","o","p","q","r","s","t","u","v","w","x","y","z">>

UpperLetters == <<"A","B","C","D","E","F","G","H","I","J","K","L","M",
                  "N","O","P","Q","R","S","T","U","V","W","X","Y","Z">>

DigitChars == <<"0","1","2","3","4","5","6","7","8","9">>

Range(s) == {s[k] : k \in DOMAIN s}

IsLower(c) == c \in Range(LowerLetters)

IsUpper(c) == c \in Range(UpperLetters)

IsDigit(c) == c \in Range(DigitChars)

\* str.lower() on one character.
ToLower(c) ==
    IF IsUpper(c)
    THEN LowerLetters[CHOOSE k \in DOMAIN UpperLetters : UpperLetters[k] = c]
    ELSE c

\* ------------------------------------------------------------------------
\* striptags (lines 57-59): re.sub(r'<.*?>|{.*?}', '', text).strip()
\* ------------------------------------------------------------------------

\* Position of the first c in s at or after position i, 0 when there is none.
FindFrom(s, i, c) ==
    IF \E j \in i..Len(s) : s[j] = c
    THEN CHOOSE j \in i..Len(s) : s[j] = c /\ \A k \in i..(j-1) : s[k] # c
    ELSE 0

RECURSIVE RemoveTags(_, _)
RemoveTags(s, i) ==
    IF i > Len(s) THEN <<>>
    ELSE IF s[i] = "<" /\ FindFrom(s, i + 1, ">") # 0
         THEN RemoveTags(s, FindFrom(s, i + 1, ">") + 1)
    ELSE IF s[i] = "{" /\ FindFrom(s, i + 1, "}") # 0
         THEN RemoveTags(s, FindFrom(s, i + 1, "}") + 1)
    ELSE <<s[i]>> \o RemoveTags(s, i + 1)

RECURSIVE LStrip(_, _)
LStrip(s, c) == IF s # <<>> /\ Head(s) = c THEN LStrip(Tail(s), c) ELSE s

RECURSIVE RStrip(_, _)
RStrip(s, c) ==
    IF s # <<>> /\ s[Len(s)] = c THEN RStrip(SubSeq(s, 1, Len(s) - 1), c) ELSE s

Strip(s, c) == RStrip(LStrip(s, c), c)

striptags(text) == Strip(RemoveTags(text, 1), " ")

\* ------------------------------------------------------------------------
\* no_skips (lines 61-66)
\* ------------------------------------------------------------------------

\* re.search(pattern, text) for the patterns of SKIP_PATTERNS.
Matches(pattern, text) ==
    CASE pattern = "ends_lower"      -> text # <<>> /\ IsLower(text[Len(text)])
      [] pattern = "ends_comma"      -> text # <<>> /\ text[Len(text)] = ","
      [] pattern = "ends_colon"      -> text # <<>> /\ text[Len(text)] = ":"
      [] pattern = "starts_lower"    -> text # <<>> /\ IsLower(text[1])
      [] pattern = "starts_ellipsis" -> Len(text) >= 3 /\ SubSeq(text, 1, 3) = <<".", ".", ".">>

no_skips(sub) ==
    IF ~SKIP_ENABLED THEN TRUE
    ELSE ~ \E k \in DOMAIN SKIP_PATTERNS : Matches(SKIP_PATTERNS[k], striptags(sub.text))

\* ------------------------------------------------------------------------
\* escape_for_ffmpeg (lines 68-70): text.replace('"', '\\"')
\* ------------------------------------------------------------------------

RECURSIVE escape_for_ffmpeg(_)
escape_for_ffmpeg(text) ==
    IF text = <<>> THEN <<>>
    ELSE (IF Head(text) = "\"" THEN <<"\\", "\"">> ELSE <<Head(text)>>)
         \o escape_for_ffmpeg(Tail(text))

\* ------------------------------------------------------------------------
\* File names of make_gif (lines 77-78, 90) and the manifest's sort key (179)
\* ------------------------------------------------------------------------

\* slugify(text) of python-slugify on ASCII text: lower-case, every run of
\* characters that are not letters or digits becomes one '-', and '-' is
\* stripped from both ends.
RECURSIVE Squeeze(_, _)
Squeeze(s, c) ==
    IF Len(s) <= 1 THEN s
    ELSE IF s[1] = c /\ s[2] = c THEN Squeeze(Tail(s), c)
    ELSE <<s[1]>> \o Squeeze(Tail(s), c)

slugify(text) ==
    LET mapped == [k \in DOMAIN text |->
                     IF IsLower(text[k]) \/ IsUpper(text[k]) \/ IsDigit(text[k])
                     THEN ToLower(text[k]) ELSE "-"]
    IN  Strip(Squeeze(mapped, "-"), "-")

\* str(i) for i >= 0.
RECURSIVE Digits(_)
Digits(i) == IF i < 10 THEN <<DigitChars[i + 1]>>
             ELSE Digits(i \div 10) \o <<DigitChars[(i % 10) + 1]>>

RECURSIVE ZeroPad(_, _)
ZeroPad(s, width) == IF Len(s) >= width THEN s ELSE ZeroPad(<<"0">> \o s, width)

\* f'{i:06}'
Pad6(i) == ZeroPad(Digits(i), 6)

\* f'{i:06}-{slugify(text)}.gif'
gif_filename(i, text) == Pad6(i) \o <<"-">> \o slugify(text) \o <<".gif">>

\* Faulty variant of temp_sub_name: one fragment name for every index.
\* C8_NoFragmentCollision fails with it.
temp_sub_name_shared(i) == <<"temp_sub", ".srt">>

\* f"temp_sub_{i}.srt"
temp_sub_name(i) == <<"temp_sub_">> \o Digits(i) \o <<".srt">>

metadata_name == <<"metadata.json">>

\* os.path.join(output_dir, name)
OutPath(output_dir, name) == [dir |-> output_dir, name |-> name]

\* name.split('-')[0]
SplitFirst(name) ==
    LET cut == FindFrom(name, 1, "-")
    IN  IF cut = 0 THEN name ELSE SubSeq(name, 1, cut - 1)

\* int(s) for a string of decimal digits.
RECURSIVE ParseInt(_)
ParseInt(s) ==
    IF s = <<>> THEN 0
    ELSE 10 * ParseInt(SubSeq(s, 1, Len(s) - 1))
         + ((CHOOSE k \in DOMAIN DigitChars : DigitChars[k] = s[Len(s)]) - 1)

\* The manifest's sort key: int(os.path.basename(x['path']).split('-')[0])
SortKey(record) == ParseInt(SplitFirst(record.path.name))

\* ------------------------------------------------------------------------
\* Input tree and find_video_pairs (lines 189-223)
\* ------------------------------------------------------------------------

\* An input file: os.path.join(root, file) with file = base + "." + ext.
InFile(dir, base, ext) == [dir |-> dir, base |-> base, ext |-> ext]

SUB_DIR == "input/s"

VIDEO_EXTS == {<<"m","p","4">>, <<"m","k","v">>, <<"a","v","i">>, <<"m","o","v">>}

SUBTITLE_EXTS == {<<"s","r","t">>, <<"s","u","b">>, <<"a","s","s">>}

\* os.path.splitext(file)[1].lower(), without the dot
LowerExt(f) == [k \in DOMAIN f.ext |-> ToLower(f.ext[k])]

IsVideo(f) == LowerExt(f) \in VIDEO_EXTS

\* the elif of line 200
IsSubtitle(f) == ~IsVideo(f) /\ LowerExt(f) \in SUBTITLE_EXTS

\* os.path.splitext(os.path.basename(path))[0]
BaseName(f) == f.base

\* os.path.dirname(path)
DirName(f) == f.dir

\* Lines 211-214: next((sub for sub in subtitle_files if <same base>), None),
\* as a sequence of at most one subtitle.  It searches every subtitle file
\* collected by the walk, whatever its directory.
MatchingSubtitle(subtitle_files, video_name) ==
    LET hits == SelectSeq(subtitle_files, LAMBDA sub : BaseName(sub) = video_name)
    IN  IF hits = <<>> THEN <<>> ELSE <<Head(hits)>>

\* Line 219
SubInSameFolder(subtitle_files, video_dir) ==
    SelectSeq(subtitle_files, LAMBDA sub : DirName(sub) = video_dir)

\* Lines 206-221 for one video: the pairs it contributes, in order.
PairsOfVideo(video, subtitle_files, input_dir) ==
    LET subs == IF DirName(video) = input_dir
                THEN MatchingSubtitle(subtitle_files, BaseName(video))
                ELSE SubInSameFolder(subtitle_files, DirName(video))
    IN  [k \in DOMAIN subs |-> <<video, subs[k]>>]

RECURSIVE ConcatPairs(_, _, _)
ConcatPairs(video_files, subtitle_files, input_dir) ==
    IF video_files = <<>> THEN <<>>
    ELSE PairsOfVideo(Head(video_files), subtitle_files, input_dir)
         \o ConcatPairs(Tail(video_files), subtitle_files, input_dir)

\* files: the files in the order os.walk yields them.
find_video_pairs(files, input_dir) ==
    LET video_files    == SelectSeq(files, IsVideo)
        subtitle_files == SelectSeq(files, IsSubtitle)
    IN  ConcatPairs(video_files, subtitle_files, input_dir)

\* ------------------------------------------------------------------------
\* Input trees the model explores
\* ------------------------------------------------------------------------

MovieMp4  == InFile(INPUT_DIR, "movie", <<"m","p","4">>)
MovieSrt  == InFile(INPUT_DIR, "movie", <<"s","r","t">>)
OtherSrt  == InFile(INPUT_DIR, "other", <<"s","r","t">>)
NotesTxt  == InFile(INPUT_DIR, "notes", <<"t","x","t">>)
SMovieMkv == InFile(SUB_DIR, "movie", <<"M","K","V">>)
SMovieSrt == InFile(SUB_DIR, "movie", <<"s","r","t">>)
SClipMkv  == InFile(SUB_DIR, "clip", <<"m","k","v">>)
SASrt     == InFile(SUB_DIR, "a", <<"s","r","t">>)
SBSub     == InFile(SUB_DIR, "b", <<"s","u","b">>)

\* All orders of the elements of S.
Orders(S) ==
    {f \in [1..Cardinality(S) -> S] : \A i, j \in DOMAIN f : i # j => f[i] # f[j]}

\* os.walk is top-down: the files of the root directory come first, those of
\* the subdirectory after them; the order inside one directory is the
\* operating system's.
WalksOf(rootFiles, subFiles) ==
    {r \o s : r \in UNION {Orders(R) : R \in SUBSET rootFiles},
              s \in UNION {Orders(S) : S \in SUBSET subFiles}}

\* Trees of the Pair Finder's specification.
PairWalks == WalksOf({MovieMp4, MovieSrt, OtherSrt, NotesTxt},
                     {SMovieSrt, SClipMkv, SASrt, SBSub})

\* Trees of the batch: every subset of these files, in this walk order.
BatchFiles == <<MovieMp4, MovieSrt, SMovieMkv, SASrt, SBSub>>

BatchWalks ==
    {SelectSeq(BatchFiles, LAMBDA f : f \in T) : T \in SUBSET Range(BatchFiles)}

\* ------------------------------------------------------------------------
\* Subtitle files: what pysrt.open returns for each of them
\* ------------------------------------------------------------------------

SubItem(text, start, end) == [text |-> text, start |-> start, end |-> end]

TextHi   == <<"H","i",".">>
TextHiB  == <<"{","b","}","H","i",".">>
TextAnd  == <<"a","n","d",",">>
TextGoI  == <<"<","i",">","G","o","!","<","/","i",">">>
TextNo   == <<"N","o","!">>
TextOh   == <<"o","h">>
TextSay  == <<"S","a","y"," ","\"","G","o","\"","!">>

SubsOf(subtitle_file) ==
    CASE subtitle_file = MovieSrt -> <<SubItem(TextHi, 0, 1500),
                                       SubItem(TextAnd, 2000, 2500),
                                       SubItem(TextGoI, 3000, 4000),
                                       SubItem(TextNo, 4200, 5000)>>
      [] subtitle_file = SASrt    -> <<SubItem(TextHi, 100, 900),
                                       SubItem(TextSay, 1000, 1800)>>
      [] subtitle_file = SBSub    -> <<SubItem(TextOh, 0, 500),
                                       SubItem(TextHiB, 600, 1900)>>
      [] OTHER                    -> <<SubItem(TextHi, 0, 1000)>>

\* ------------------------------------------------------------------------
\* State
\* ------------------------------------------------------------------------

VARIABLES
    walk,           \* the input tree, as os.walk lists its files
    video_pairs,    \* main: the result of find_video_pairs
    mainpc,         \* main: "find", "loop", "pool" (inside process_video), "done", "exit1"
    pairIdx,        \* main: position of the for loop of line 242 in video_pairs
    tasks,          \* per pair, the tasks of its pool: arguments, position, result
    completed,      \* futures that are done and not yet yielded by as_completed
    pbar,           \* process_video: number of futures yielded (pbar.update)
    metadata_list,  \* process_video: the collected results
    fs,             \* the output tree: path -> content of every existing file
    ffmpeg_runs     \* number of subprocess.run(cmd) calls so far

vars == <<walk, video_pairs, mainpc, pairIdx, tasks, completed, pbar,
          metadata_list, fs, ffmpeg_runs>>

\* The value make_gif returns on failure.
None == [none |-> TRUE]

\* ------------------------------------------------------------------------
\* The file system
\* ------------------------------------------------------------------------

Content(kind, state, body) == [kind |-> kind, state |-> state, body |-> body]

\* os.path.exists(path)
Exists(files, path) == path \in DOMAIN files

\* os.path.exists(path) and os.path.getsize(path) > 0
NonEmpty(files, path) == Exists(files, path) /\ files[path].state # "empty"

\* open(path, 'w') followed by the write: creates or replaces the file.
WriteFile(files, path, content) ==
    [q \in DOMAIN files \cup {path} |-> IF q = path THEN content ELSE files[q]]

\* os.remove(path)
RemoveFile(files, path) == [q \in DOMAIN files \ {path} |-> files[q]]

\* Lines 136-137: if os.path.exists(temp_sub_file): os.remove(temp_sub_file)
CleanupFragment(files, temp_sub_file) ==
    IF Exists(files, temp_sub_file) THEN RemoveFile(files, temp_sub_file) ELSE files

\* ------------------------------------------------------------------------
\* make_gif (lines 72-137), in two steps: up to the written fragment
\* (lines 74-96), and the transcoder call with what follows it (124-137)
\* ------------------------------------------------------------------------

\* Line 78
gif_filepath(t) == OutPath(t.output_dir, gif_filename(t.i, striptags(t.sub.text)))

\* Line 90
temp_sub_file(t) == OutPath(t.output_dir, temp_sub_name(t.i))

\* Lines 81 and 128
Metadata(t) == [text |-> t.sub.text, path |-> gif_filepath(t)]

\* Faulty variant of AlreadyDone: the existence check looks at the fragment
\* instead of the output file.  C6_Idempotence fails with it.
AlreadyDoneFragment(files, t) == NonEmpty(files, temp_sub_file(t))

\* Line 80: the idempotent skip
AlreadyDone(files, t) == NonEmpty(files, gif_filepath(t))

\* Line 93: the single entry of the fragment, the clip's duration and the
\* escaped caption
FragmentContent(t) ==
    Content("srt", "complete",
            <<[duration |-> t.sub.end - t.sub.start,
               text |-> escape_for_ffmpeg(striptags(t.sub.text))]>>)

\* What open/write of lines 92-93 can do: succeed, fail before the file is
\* created, or fail after it (the write or the close raises).
WriteOutcomes == {"ok", "open_failed", "write_failed"}

\* What one transcoder run can do: its exit status, and what it leaves at
\* the destination path ("none": the path is not touched).
FfmpegOutcomes ==
    {[exit |-> 0, out |-> "complete"], [exit |-> 0, out |-> "empty"],
     [exit |-> 0, out |-> "none"],
     [exit |-> 1, out |-> "none"], [exit |-> 1, out |-> "empty"],
     [exit |-> 1, out |-> "partial"]}

\* The output tree after the transcoder has run.
AfterFfmpeg(files, t, outcome) ==
    IF outcome.out = "none" THEN files
    ELSE WriteFile(files, gif_filepath(t), Content("gif", outcome.out, <<>>))

\* Lines 124-134: the value returned and the return statement's line.
\* subprocess.run(check=True) raises CalledProcessError on a non-zero exit.
TranscodeReturn(files, t, outcome) ==
    IF outcome.exit # 0 THEN [result |-> None, ret |-> 134]
    ELSE IF NonEmpty(files, gif_filepath(t))
         THEN [result |-> Metadata(t), ret |-> 128]
         ELSE [result |-> None, ret |-> 131]

\* Lines 126-137 on the tree the transcoder left: line 127 on success, the
\* finally clause on every path.
AfterTranscode(files, t, outcome) ==
    LET removed == IF outcome.exit = 0 /\ NonEmpty(files, gif_filepath(t))
                   THEN RemoveFile(files, temp_sub_file(t))
                   ELSE files
    IN  CleanupFragment(removed, temp_sub_file(t))

\* Lines 94-96: the IOError handler, on the tree the failed write left.
AfterWriteError(files, t) == files

Returned(t, r) == [t EXCEPT !.pc = "done", !.result = r.result, !.ret = r.ret]

\* Tasks of pool p that occupy a worker.
Running(p) == {k \in DOMAIN tasks[p] : tasks[p][k].pc = "running"}

Queued(p) == {k \in DOMAIN tasks[p] : tasks[p][k].pc = "queued"}

\* A worker takes the next task: the executor's queue is first in, first
\* out, and at most MAX_WORKERS tasks run at a time.
MayStart(p, k) ==
    /\ k \in Queued(p)
    /\ \A j \in Queued(p) : k <= j
    /\ Cardinality(Running(p)) < MaxWorkers

\* Lines 74-96
Begin(p, k) ==
    /\ p \in DOMAIN tasks
    /\ MayStart(p, k)
    /\ LET t == tasks[p][k] IN
       \/ /\ AlreadyDone(fs, t)
          /\ tasks' = [tasks EXCEPT ![p][k] =
                         Returned(t, [result |-> Metadata(t), ret |-> 81])]
          /\ completed' = Append(completed, <<p, k>>)
          /\ fs' = fs
       \/ /\ ~AlreadyDone(fs, t)
          /\ \E w \in WriteOutcomes :
               CASE w = "ok" ->
                      /\ fs' = WriteFile(fs, temp_sub_file(t), FragmentContent(t))
                      /\ tasks' = [tasks EXCEPT ![p][k].pc = "running"]
                      /\ completed' = completed
                 [] w = "open_failed" ->
                      /\ fs' = AfterWriteError(fs, t)
                      /\ tasks' = [tasks EXCEPT ![p][k] =
                                     Returned(t, [result |-> None, ret |-> 96])]
                      /\ completed' = Append(completed, <<p, k>>)
                 [] w = "write_failed" ->
                      /\ fs' = AfterWriteError(
                                 WriteFile(fs, temp_sub_file(t),
                                           Content("srt", "empty", <<>>)), t)
                      /\ tasks' = [tasks EXCEPT ![p][k] =
                                     Returned(t, [result |-> None, ret |-> 96])]
                      /\ completed' = Append(completed, <<p, k>>)
    /\ UNCHANGED <<walk, video_pairs, mainpc, pairIdx, pbar, metadata_list, ffmpeg_runs>>

\* Lines 124-137
Transcode(p, k) ==
    /\ p \in DOMAIN tasks
    /\ k \in Running(p)
    /\ \E outcome \in FfmpegOutcomes :
         LET t    == tasks[p][k]
             left == AfterFfmpeg(fs, t, outcome)
         IN  /\ fs' = AfterTranscode(left, t, outcome)
             /\ tasks' = [tasks EXCEPT ![p][k] =
                            Returned(t, TranscodeReturn(left, t, outcome))]
    /\ ffmpeg_runs' = ffmpeg_runs + 1
    /\ completed' = Append(completed, <<p, k>>)
    /\ UNCHANGED <<walk, video_pairs, mainpc, pairIdx, pbar, metadata_list>>

\* ------------------------------------------------------------------------
\* process_video (lines 139-187)
\* ------------------------------------------------------------------------

\* Lines 141-142: os.path.join(OUTPUT_DIR, video_name)
OutputDir(video_file) == [root |-> OUTPUT_DIR, name |-> BaseName(video_file)]

\* Line 143: os.makedirs(output_dir, exist_ok=True); the directory is the
\* entry with the empty name.
MakeDirs(files, output_dir) ==
    IF Exists(files, OutPath(output_dir, <<>>)) THEN files
    ELSE WriteFile(files, OutPath(output_dir, <<>>), Content("dir", "complete", <<>>))

\* Line 153
FilteredSubs(subs) == SelectSeq(subs, no_skips)

\* Lines 158-161, with each future's state
MakeTasks(video_file, subtitle_file, filtered_subs) ==
    [k \in DOMAIN filtered_subs |->
       [i |-> k - 1, sub |-> filtered_subs[k], video_path |-> video_file,
        subtitle_path |-> subtitle_file, output_dir |-> OutputDir(video_file),
        pc |-> "queued", result |-> None, ret |-> 0]]

\* What pysrt.open(subtitle_file, encoding="utf-8") can do: return the
\* items, raise IOError (the file cannot be opened), or raise
\* UnicodeDecodeError (the bytes are not UTF-8), which is a ValueError.
OpenOutcomes == {"ok", "ioerror", "decode_error"}

\* Lines 149-151: the exceptions of pysrt.open the handler catches.
CaughtOnOpen(outcome) == outcome = "ioerror"

\* Lines 141-164
StartVideo ==
    /\ mainpc = "loop"
    /\ pairIdx \in DOMAIN video_pairs
    /\ LET video_file    == video_pairs[pairIdx][1]
           subtitle_file == video_pairs[pairIdx][2]
       IN  /\ fs' = MakeDirs(fs, OutputDir(video_file))
           /\ \E outcome \in OpenOutcomes :
                IF outcome = "ok"
                THEN /\ tasks' = [tasks EXCEPT ![pairIdx] =
                                    MakeTasks(video_file, subtitle_file,
                                              FilteredSubs(SubsOf(subtitle_file)))]
                     /\ mainpc' = "pool"
                     /\ pairIdx' = pairIdx
                ELSE IF CaughtOnOpen(outcome)
                THEN /\ tasks' = tasks
                     /\ mainpc' = "loop"
                     /\ pairIdx' = pairIdx + 1
                ELSE /\ tasks' = tasks
                     /\ mainpc' = "exit1"
                     /\ pairIdx' = pairIdx
    /\ completed' = <<>>
    /\ pbar' = 0
    /\ metadata_list' = <<>>
    /\ UNCHANGED <<walk, video_pairs, ffmpeg_runs>>

\* Faulty variant of CollectResult: a failed task discards what its
\* siblings contributed.  C2_FailureIsolation fails with it.
CollectResultFailFast(list, result) ==
    IF result # None THEN Append(list, result) ELSE <<>>

\* Lines 172-173
CollectResult(list, result) == IF result # None THEN Append(list, result) ELSE list

\* Lines 170-176: as_completed yields the next finished future.
Collect ==
    /\ mainpc = "pool"
    /\ completed # <<>>
    /\ LET id == Head(completed)
       IN  metadata_list' = CollectResult(metadata_list, tasks[id[1]][id[2]].result)
    /\ completed' = Tail(completed)
    /\ pbar' = pbar + 1
    /\ UNCHANGED <<walk, video_pairs, mainpc, pairIdx, tasks, fs, ffmpeg_runs>>

\* list.sort(key=...) of line 179: stable, ascending.
RECURSIVE InsertByKey(_, _)
InsertByKey(sorted, r) ==
    IF sorted = <<>> THEN <<r>>
    ELSE IF SortKey(r) < SortKey(Head(sorted)) THEN <<r>> \o sorted
    ELSE <<Head(sorted)>> \o InsertByKey(Tail(sorted), r)

RECURSIVE SortFrom(_, _)
SortFrom(sorted, rest) ==
    IF rest = <<>> THEN sorted
    ELSE SortFrom(InsertByKey(sorted, Head(rest)), Tail(rest))

\* Faulty variant of SortByKey: the list stays in completion order.
\* C7_ManifestOrdering fails with it.
SortByKeyUnsorted(list) == list

SortByKey(list) == SortFrom(<<>>, list)

\* Lines 178-183
WriteManifest(files, output_dir, list) ==
    IF list # <<>>
    THEN WriteFile(files, OutPath(output_dir, metadata_name),
                   Content("json", "complete", SortByKey(list)))
    ELSE files

\* The loop of line 170 has yielded every future and the executor's with
\* block has been left (shutdown waits for the workers).
PoolDrained(p) == pbar = Len(tasks[p]) /\ Running(p) = {} /\ Queued(p) = {}

\* Lines 178-187
FinishVideo ==
    /\ mainpc = "pool"
    /\ PoolDrained(pairIdx)
    /\ fs' = WriteManifest(fs, OutputDir(video_pairs[pairIdx][1]), metadata_list)
    /\ mainpc' = "loop"
    /\ pairIdx' = pairIdx + 1
    /\ UNCHANGED <<walk, video_pairs, tasks, completed, pbar, metadata_list, ffmpeg_runs>>

\* ------------------------------------------------------------------------
\* main (lines 237-245)
\* ------------------------------------------------------------------------

\* Lines 237-240
FindPairs ==
    /\ mainpc = "find"
    /\ video_pairs' = find_video_pairs(walk, INPUT_DIR)
    /\ tasks' = [p \in DOMAIN video_pairs' |-> <<>>]
    /\ mainpc' = IF video_pairs' = <<>> THEN "exit1" ELSE "loop"
    /\ UNCHANGED <<walk, pairIdx, completed, pbar, metadata_list, fs, ffmpeg_runs>>

\* Line 245: the for loop is exhausted.
AllProcessed ==
    /\ mainpc = "loop"
    /\ pairIdx > Len(video_pairs)
    /\ mainpc' = "done"
    /\ UNCHANGED <<walk, video_pairs, pairIdx, tasks, completed, pbar,
                   metadata_list, fs, ffmpeg_runs>>

\* ------------------------------------------------------------------------
\* Specifications
\* ------------------------------------------------------------------------

InitWith(walks) ==
    /\ walk \in walks
    /\ video_pairs = <<>>
    /\ mainpc = "find"
    /\ pairIdx = 1
    /\ tasks = <<>>
    /\ completed = <<>>
    /\ pbar = 0
    /\ metadata_list = <<>>
    /\ fs = <<>>
    /\ ffmpeg_runs = 0

Init == InitWith(BatchWalks)

Next ==
    \/ FindPairs
    \/ StartVideo
    \/ \E p \in DOMAIN tasks : \E k \in DOMAIN tasks[p] : Begin(p, k)
    \/ \E p \in DOMAIN tasks : \E k \in DOMAIN tasks[p] : Transcode(p, k)
    \/ Collect
    \/ FinishVideo
    \/ AllProcessed

Spec == Init /\ [][Next]_vars

\* The Pair Finder alone, over every tree and walk order of PairWalks.
InitPairs == InitWith(PairWalks)

NextPairs == FindPairs

SpecPairs == InitPairs /\ [][NextPairs]_vars

\* ------------------------------------------------------------------------
\* Properties
\* ------------------------------------------------------------------------

TaskIds == UNION {{<<p, k>> : k \in DOMAIN tasks[p]} : p \in DOMAIN tasks}

Task(id) == tasks[id[1]][id[2]]

\* Task id returns in this step.
Returns(id) ==
    /\ id[1] \in DOMAIN tasks' /\ id[2] \in DOMAIN tasks'[id[1]]
    /\ Task(id).pc # "done"
    /\ tasks'[id[1]][id[2]].pc = "done"

ManifestPath(p) == OutPath(OutputDir(video_pairs[p][1]), metadata_name)

\* process_video has just returned for pair p.
JustReturned(p) ==
    /\ mainpc \in {"loop", "done", "exit1"}
    /\ p \in DOMAIN tasks
    /\ p = pairIdx - 1

Succeeded(p) == SelectSeq(tasks[p], LAMBDA t : t.result # None)

\* C1 (as claimed): whenever a make_gif task that got past the idempotent
\* skip returns, whatever the way it ends, its transient fragment
\* temp_sub_<index>.srt does not exist in the output directory.
C1_GuaranteedCleanup ==
    [][\A id \in TaskIds :
         (Returns(id) /\ tasks'[id[1]][id[2]].ret # 81)
           => ~Exists(fs', temp_sub_file(Task(id)))]_vars

C3_PairIsolation == Len(video_pairs) >= 2 => mainpc # "exit1"

\* C4 (as claimed): in one output directory no two generated clips carry
\* the same numeric prefix, and the prefix of the clip of a finished task is
\* the task's position in the filtered sequence.
C4_IndexInvariant ==
    /\ \A q1, q2 \in DOMAIN fs :
         (/\ fs[q1].kind = "gif" /\ fs[q1].state = "complete"
          /\ fs[q2].kind = "gif" /\ fs[q2].state = "complete"
          /\ q1.dir = q2.dir /\ q1 # q2)
           => SplitFirst(q1.name) # SplitFirst(q2.name)
    /\ \A id \in TaskIds :
         Task(id).ret = 128 => ParseInt(SplitFirst(gif_filepath(Task(id)).name)) = Task(id).i

\* C5 (as claimed): a video directly in the root input directory is paired
\* only with a subtitle of the root directory that has its base filename.
C5_RootPairing ==
    \A k \in DOMAIN video_pairs :
      DirName(video_pairs[k][1]) = INPUT_DIR =>
        /\ DirName(video_pairs[k][2]) = INPUT_DIR
        /\ BaseName(video_pairs[k][2]) = BaseName(video_pairs[k][1])

\* C6: a make_gif invocation that finds its target output file existing and
\* non-empty returns at once: it leaves the whole output tree unchanged (no
\* fragment, the output file as it was), runs no transcoder, and returns
\* {text: the entry's original text, path: the output path}.
C6_Idempotence ==
    [][\A id \in TaskIds :
         (/\ Task(id).pc = "queued"
          /\ tasks'[id[1]][id[2]].pc # "queued"
          /\ NonEmpty(fs, gif_filepath(Task(id))))
           => /\ fs' = fs
              /\ ffmpeg_runs' = ffmpeg_runs
              /\ tasks'[id[1]][id[2]].pc = "done"
              /\ tasks'[id[1]][id[2]].result =
                   [text |-> Task(id).sub.text,
                    path |-> OutPath(Task(id).output_dir,
                                     gif_filename(Task(id).i, striptags(Task(id).sub.text)))]]_vars

\* C6 witness: two invocations for the same output file have both taken
\* the skip, and the file is still the complete clip.
C6_Witness ==
    \E a, b \in TaskIds :
      /\ a # b
      /\ Task(a).ret = 81 /\ Task(b).ret = 81
      /\ gif_filepath(Task(a)) = gif_filepath(Task(b))
      /\ Task(a).result.path = Task(b).result.path
      /\ NonEmpty(fs, gif_filepath(Task(a)))

StrictlyAscending(records) ==
    \A j \in 1..(Len(records) - 1) : SortKey(records[j]) < SortKey(records[j + 1])

\* C7: a manifest is written only when every task of the pair's pool has
\* completed, and the records written are in strictly ascending order of the
\* numeric filename prefix, each the record of the entry at that position
\* of the filtered sequence.
C7_ManifestOrdering ==
    [][\A p \in DOMAIN video_pairs :
         (/\ Exists(fs', ManifestPath(p))
          /\ (~Exists(fs, ManifestPath(p)) \/ fs'[ManifestPath(p)] # fs[ManifestPath(p)]))
           => /\ \A k \in DOMAIN tasks[pairIdx] : tasks[pairIdx][k].pc = "done"
              /\ ManifestPath(p) = ManifestPath(pairIdx)
              /\ LET records == fs'[ManifestPath(p)].body
                 IN  /\ StrictlyAscending(records)
                     /\ \A j \in DOMAIN records :
                          /\ SortKey(records[j]) + 1 \in DOMAIN tasks[pairIdx]
                          /\ records[j].text = tasks[pairIdx][SortKey(records[j]) + 1].sub.text]_vars

\* C7 witness: the results were collected in an order that is not the order
\* of the indices, and the manifest written from them is ascending.
C7_Witness ==
    \E p \in DOMAIN tasks :
      /\ JustReturned(p) /\ mainpc = "loop"
      /\ Len(metadata_list) = 3
      /\ ~StrictlyAscending(metadata_list)
      /\ Exists(fs, ManifestPath(p))
      /\ Len(fs[ManifestPath(p)].body) = 3
      /\ StrictlyAscending(fs[ManifestPath(p)].body)

RunningIds == {id \in TaskIds : Task(id).pc = "running"}

\* C8: no two tasks that run at the same time use the same transient
\* fragment path, and every running task belongs to the pool of the pair
\* that process_video is working on.
C8_NoFragmentCollision ==
    /\ \A a, b \in RunningIds : a # b => temp_sub_file(Task(a)) # temp_sub_file(Task(b))
    /\ \A a \in RunningIds : mainpc = "pool" /\ a[1] = pairIdx

\* C8 witness: two tasks of a later pair run at the same time, in an output
\* directory an earlier pair has used.
C8_Witness ==
    /\ Cardinality(RunningIds) = 2
    /\ pairIdx > 1
    /\ \E a \in RunningIds :
         /\ Exists(fs, temp_sub_file(Task(a)))
         /\ \E p \in 1..(pairIdx - 1) :
              tasks[p] # <<>> /\ tasks[p][1].output_dir = Task(a).output_dir

\* C9 (as claimed): a make_gif task that returns the failure marker leaves
\* no non-empty file at its target output path.
C9_NoLeftoverOutput ==
    [][\A id \in TaskIds :
         (Returns(id) /\ tasks'[id[1]][id[2]].result = None)
           => ~NonEmpty(fs', gif_filepath(Task(id)))]_vars

\* C10 (as claimed): after process_video has returned for a pair, a
\* manifest present in the video's output directory lists exactly the clips
\* that succeeded in that run.
C10_ManifestCurrent ==
    \A p \in DOMAIN tasks :
      (JustReturned(p) /\ Exists(fs, ManifestPath(p))) =>
        fs[ManifestPath(p)].body =
          [j \in DOMAIN Succeeded(p) |->
             [text |-> Succeeded(p)[j].sub.text, path |-> gif_filepath(Succeeded(p)[j])]]

====
